---- MODULE Spec2Model ----
(***************************************************************************)
(* The POST /api/document-merge handler of src/app.py (document_merge),    *)
(* as a state machine: one handler invocation per in-flight request, each  *)
(* with its own local variables, stepping through the statements of the    *)
(* function body.                                                          *)
(*                                                                         *)
(* JSON values are records [kind, val]; strings are sequences of atoms     *)
(* (one atom is one character, or one chunk of characters that the model   *)
(* never splits).                                                          *)
(***************************************************************************)
EXTENDS Integers, Sequences, FiniteSets, TLC

\* Longest `template` string enumerated exhaustively.
MaxTemplateLen == 4
\* Largest number of entries of `data` enumerated exhaustively.
MaxDataLen == 2
\* Number of requests in flight at once (the concurrent specification).
NumHandlers == 2

Handlers == 1..NumHandlers

(***************************************************************************)
(* JSON values, as flask's request.get_json() returns them.                *)
(***************************************************************************)
JNull == [kind |-> "null", val |-> <<>>]
JBool(b) == [kind |-> "bool", val |-> <<b>>]
JNum(n) == [kind |-> "num", val |-> <<n>>]
JStr(s) == [kind |-> "str", val |-> s]
JArr(a) == [kind |-> "arr", val |-> a]
JObj(items) == [kind |-> "obj", val |-> items]
Item(key, value) == [k |-> key, v |-> value]

\* A local variable that has not been assigned yet.
Unset == [kind |-> "unset", val |-> <<>>]

\* Python truthiness: `not request_data` (line 46) is Falsy(request_data).
Falsy(v) ==
    \/ v.kind = "null"
    \/ v.kind = "bool" /\ v.val = <<FALSE>>
    \/ v.kind = "num" /\ v.val = <<0>>
    \/ v.kind \in {"str", "arr", "obj"} /\ v.val = <<>>

\* isinstance(value, str) (line 64) and isinstance(data, dict) (line 56).
IsStr(v) == v.kind = "str"
IsDict(v) == v.kind = "obj"

Keys(obj) == {obj.val[i].k : i \in 1..Len(obj.val)}
Get(obj, key) == obj.val[CHOOSE i \in 1..Len(obj.val) : obj.val[i].k = key].v

\* Python `needle in hay` for two str values: a contiguous run of hay.
IsSubstring(needle, hay) ==
    \E i \in 0..(Len(hay) - Len(needle)) :
        \A j \in 1..Len(needle) : hay[i + j] = needle[j]

\* `key in v` (line 46) for the kinds that support it: dict -> key lookup,
\* list -> element equality, str -> substring.
Contains(v, key) ==
    CASE v.kind = "obj" -> key \in Keys(v)
      [] v.kind = "arr" -> \E i \in 1..Len(v.val) : v.val[i] = JStr(<<key>>)
      [] v.kind = "str" -> IsSubstring(<<key>>, v.val)
      [] OTHER -> FALSE

\* int, float and bool do not support `in`: TypeError.
SupportsIn(v) == v.kind \in {"obj", "arr", "str"}

\* Only a dict supports request_data['template'] (lines 52-53).
SupportsKeyIndex(v) == v.kind = "obj"

(***************************************************************************)
(* base64 (lines 72 and 96).                                               *)
(***************************************************************************)
B64Table ==
    << "A","B","C","D","E","F","G","H","I","J","K","L","M","N","O","P",
       "Q","R","S","T","U","V","W","X","Y","Z","a","b","c","d","e","f",
       "g","h","i","j","k","l","m","n","o","p","q","r","s","t","u","v",
       "w","x","y","z","0","1","2","3","4","5","6","7","8","9","+","/" >>

InB64Table(c) == \E i \in 1..Len(B64Table) : B64Table[i] = c
B64Value(c) == (CHOOSE i \in 1..Len(B64Table) : B64Table[i] = c) - 1

\* Characters outside ASCII: str.encode('ascii') inside b64decode rejects them.
NonAscii == {"U+00E9"}

Raised(type, msg) == [ok |-> FALSE, type |-> type, msg |-> msg, bytes |-> <<>>]
Decoded(bytes) == [ok |-> TRUE, type |-> "", msg |-> <<>>, bytes |-> bytes]

\* binascii.a2b_base64 in its default, non-strict mode: characters outside
\* the alphabet are skipped, a completing run of '=' ends the input, and
\* an incomplete quad at the end of the input is an error.
RECURSIVE A2B(_, _, _, _, _, _)
A2B(s, i, quad, left, pads, out) ==
    IF i > Len(s)
    THEN IF quad = 0 THEN Decoded(out)
         ELSE IF quad = 1
              THEN Raised("binascii.Error", <<"Invalid base64-encoded string">>)
              ELSE Raised("binascii.Error", <<"Incorrect padding">>)
    ELSE IF s[i] = "="
    THEN IF quad >= 2 /\ quad + pads + 1 >= 4
         THEN Decoded(out)
         ELSE A2B(s, i + 1, quad, left, IF quad >= 2 THEN pads + 1 ELSE pads, out)
    ELSE IF ~InB64Table(s[i])
    THEN A2B(s, i + 1, quad, left, pads, out)
    ELSE LET v == B64Value(s[i]) IN
         CASE quad = 0 -> A2B(s, i + 1, 1, v, 0, out)
           [] quad = 1 -> A2B(s, i + 1, 2, v % 16, 0,
                              Append(out, (left * 4 + v \div 16) % 256))
           [] quad = 2 -> A2B(s, i + 1, 3, v % 4, 0,
                              Append(out, (left * 16 + v \div 4) % 256))
           [] quad = 3 -> A2B(s, i + 1, 0, 0, 0,
                              Append(out, (left * 64 + v) % 256))

\* base64.b64decode(template_base64) (line 72), validate=False.
B64Decode(v) ==
    IF ~IsStr(v)
    THEN Raised("TypeError",
                <<"argument should be a bytes-like object or ASCII string">>)
    ELSE IF \E i \in 1..Len(v.val) : v.val[i] \in NonAscii
    THEN Raised("ValueError",
                <<"string argument should contain only ASCII characters">>)
    ELSE A2B(v.val, 1, 0, 0, 0, <<>>)

\* base64.b64encode(output_bytes).decode('utf-8') (line 96).
RECURSIVE B64Encode(_)
B64Encode(b) ==
    IF Len(b) = 0 THEN <<>>
    ELSE IF Len(b) = 1
    THEN << B64Table[b[1] \div 4 + 1], B64Table[(b[1] % 4) * 16 + 1], "=", "=" >>
    ELSE IF Len(b) = 2
    THEN << B64Table[b[1] \div 4 + 1],
            B64Table[(b[1] % 4) * 16 + b[2] \div 16 + 1],
            B64Table[(b[2] % 16) * 4 + 1], "=" >>
    ELSE << B64Table[b[1] \div 4 + 1],
            B64Table[(b[1] % 4) * 16 + b[2] \div 16 + 1],
            B64Table[(b[2] % 16) * 4 + b[3] \div 64 + 1],
            B64Table[(b[3] % 64) + 1] >> \o B64Encode(SubSeq(b, 4, Len(b)))

(***************************************************************************)
(* The merge capability (docx-mailmerge's MailMerge, imported at line 5),  *)
(* as far as the handler uses it.  A document package is modelled as a     *)
(* byte string: the first byte is the package signature 'P' (a zip archive *)
(* starts with "PK"), every later byte is one entry of the package, whose  *)
(* low two bits give its kind: 0 a text run, 1 the merge field "name",     *)
(* 2 the merge field "date", 3 an entry whose stored data is damaged.      *)
(***************************************************************************)
Text(value) == [tag |-> "text", val |-> value]
MergeField(name) == [tag |-> "MergeField", val |-> <<name>>]
Damaged == [tag |-> "damaged", val |-> <<>>]

ElementOf(byte) ==
    CASE byte % 4 = 0 -> Text(<<>>)
      [] byte % 4 = 1 -> MergeField("name")
      [] byte % 4 = 2 -> MergeField("date")
      [] byte % 4 = 3 -> Damaged

IsPackage(bytes) == Len(bytes) >= 1 /\ bytes[1] = 80

\* MailMerge(template_file) (line 81): the parsed package, or BadZipFile.
NewMailMerge(bytes) ==
    IF IsPackage(bytes)
    THEN [ok |-> TRUE, type |-> "", msg |-> <<>>,
          doc |-> [i \in 1..(Len(bytes) - 1) |-> ElementOf(bytes[i + 1])]]
    ELSE [ok |-> FALSE, type |-> "BadZipFile", msg |-> <<"File is not a zip file">>,
          doc |-> <<>>]

\* document.get_merge_fields() (line 84): the names of the MergeField
\* elements the document holds now.
MergeFieldsOf(doc) ==
    {doc[i].val[1] : i \in {j \in 1..Len(doc) : doc[j].tag = "MergeField"}}

\* document.merge(**data) (line 87).  The keys of data are spread as keyword
\* arguments of the bound method merge(self, parts=None, **replacements): a
\* key "self" collides with the receiver and the call raises TypeError
\* before the library runs.  Otherwise every MergeField whose name is a key
\* of data is replaced by a text run holding the value.
MergeInto(doc, data) ==
    IF "self" \in Keys(data)
    THEN [ok |-> FALSE, type |-> "TypeError",
          msg |-> <<"merge() got multiple values for argument 'self'">>,
          doc |-> doc]
    ELSE [ok |-> TRUE, type |-> "", msg |-> <<>>,
          doc |-> [i \in 1..Len(doc) |->
                     IF doc[i].tag = "MergeField" /\ doc[i].val[1] \in Keys(data)
                     THEN Text(Get(data, doc[i].val[1]).val)
                     ELSE doc[i]]]

ByteOf(element) ==
    CASE element.tag = "text" -> IF element.val = <<>> THEN 0 ELSE 4
      [] element = MergeField("name") -> 1
      [] element = MergeField("date") -> 2
      [] OTHER -> 3

\* document.write(output_buffer) (line 91): every entry of the package is
\* read back and written out; reading a damaged entry raises BadZipFile.
WriteOut(doc) ==
    IF \E i \in 1..Len(doc) : doc[i].tag = "damaged"
    THEN [ok |-> FALSE, type |-> "BadZipFile", msg |-> <<"Bad CRC-32">>,
          bytes |-> <<>>]
    ELSE [ok |-> TRUE, type |-> "", msg |-> <<>>,
          bytes |-> <<80>> \o [i \in 1..Len(doc) |-> ByteOf(doc[i])]]

(***************************************************************************)
(* Responses (jsonify(...), status).  `fields` is list(set): a JSON array  *)
(* in the set's iteration order, modelled as the set.                      *)
(***************************************************************************)
ErrorResponse(status, message) ==
    [status |-> status, body |-> [success |-> FALSE, error |-> message]]

SuccessResponse(document, fields) ==
    [status |-> 200,
     body |-> [success |-> TRUE, document |-> document, fields |-> fields]]

MissingParameters == <<"Missing required parameters: template and data">>
DataNotObject == <<"Data must be an object">>
ValueNotString(key) == <<"Data value for key '", key, "' must be a string">>
InvalidBase64 == <<"Invalid base64 encoded template">>

\* The index of the first entry of data, in iteration order, whose value is
\* not a str; 0 when every value is a str (the loop of lines 63-68).
RECURSIVE FirstNonStringFrom(_, _)
FirstNonStringFrom(items, i) ==
    IF i > Len(items) THEN 0
    ELSE IF ~IsStr(items[i].v) THEN i
    ELSE FirstNonStringFrom(items, i + 1)

FirstEntryIfAnyNonString(items) ==
    IF \A i \in 1..Len(items) : IsStr(items[i].v) THEN 0 ELSE 1

FirstNonString(items) == FirstNonStringFrom(items, 1)

\* `except Exception` of the inner try (line 73) catches every exception
\* b64decode raises.
DecodeCatchesOnlyBinascii(exc) == exc.type = "binascii.Error"

DecodeCatches(exc) == TRUE

\* `except Exception as e` of the outer try (line 105) catches every
\* exception raised in lines 42-103.
OuterCatchesOnlyValueError(exc) == exc.type = "ValueError"

OuterCatches(exc) == TRUE

\* The response of the outer except clause (lines 107-110).
ExceptResponseNoStatus(exc) ==
    [status |-> 200, body |-> [success |-> FALSE, error |-> exc.msg]]

ExceptResponse(exc) == ErrorResponse(500, exc.msg)

\* What flask answers when the view function lets an exception escape: its
\* own 500 page, which is no JSON object of this handler.
FlaskInternalServerError == [status |-> 500, body |-> [html |-> TRUE]]

(***************************************************************************)
(* Inputs.                                                                 *)
(***************************************************************************)
Strings(alphabet, n) == UNION {[1..k -> alphabet] : k \in 0..n}

\* Characters of a `template` string: four of the base64 alphabet, the pad
\* character, and one ASCII character outside the alphabet.
B64Chars == {"U", "F", "K", "P", "=", "!"}

AllTemplates ==
    {JStr(t) : t \in Strings(B64Chars, MaxTemplateLen) \cup {<<"U+00E9">>}}
        \cup {JNull, JNum(42), JBool(TRUE), JArr(<<>>), JObj(<<>>)}

TemplateSamples ==
    { JStr(<<"U", "F", "F", "K">>),    \* package with fields name and date
      JStr(<<"U", "F", "=", "=">>),    \* package with no entry
      JStr(<<"U", "F", "F", "P">>),    \* package with a damaged entry
      JStr(<<"U", "F">>),              \* incorrect padding
      JStr(<<"!">>),                   \* decodes to no bytes
      JNum(42) }

DataKeys == {"name", "date", "self"}
DataAtoms == {JStr(<<"Acme">>), JNum(42), JNull}
DataItems == {Item(k, v) : k \in DataKeys, v \in DataAtoms}

\* A JSON object keeps the order of its members (dict insertion order) and
\* holds each key once.
DataMappings ==
    {m \in Strings(DataItems, MaxDataLen) :
        \A i, j \in 1..Len(m) : m[i].k = m[j].k => i = j}

AllData ==
    {JObj(m) : m \in DataMappings}
        \cup {JNull, JNum(42), JStr(<<"x">>), JArr(<<>>)}

DataSamples ==
    { JObj(<<>>),
      JObj(<<Item("name", JStr(<<"Acme">>))>>),
      JObj(<<Item("name", JNum(42))>>),
      JObj(<<Item("date", JStr(<<"Acme">>)), Item("name", JStr(<<"Acme">>))>>) }

NonObjectBodies ==
    { JNull, JBool(FALSE), JBool(TRUE), JNum(0), JNum(42),
      JStr(<<>>), JStr(<<"x">>), JStr(<<"template", " ", "data">>),
      JArr(<<>>), JArr(<<JStr(<<"template">>)>>),
      JArr(<<JStr(<<"template">>), JStr(<<"data">>)>>) }

ObjectBodies ==
    {JObj(<<Item("template", td[1]), Item("data", td[2])>>) :
        td \in (AllTemplates \X DataSamples) \cup (TemplateSamples \X AllData)}
        \cup {JObj(<<Item("template", t)>>) : t \in TemplateSamples}
        \cup {JObj(<<Item("data", d)>>) : d \in DataSamples}
        \cup {JObj(<<>>), JObj(<<Item("other", JNull)>>)}

\* A request is its body as get_json() sees it: a JSON text that parses to
\* a value, or one that does not parse (an empty body included).
Parsed(body) == [parse |-> "ok", json |-> body]
Unparsable == [parse |-> "fail", json |-> JNull]
NoRequest == [parse |-> "none", json |-> JNull]

Requests == {Parsed(b) : b \in NonObjectBodies \cup ObjectBodies} \cup {Unparsable}

Body(t, d) == Parsed(JObj(<<Item("template", t), Item("data", d)>>))

\* The requests handled concurrently: one of each outcome.
ConcurrentRequests ==
    { Body(JStr(<<"U", "F", "F", "K">>), JObj(<<Item("name", JStr(<<"Acme">>))>>)),
      Body(JStr(<<"U", "F", "F", "K">>), JObj(<<>>)),
      Body(JStr(<<"U", "F", "K", "U">>), JObj(<<Item("date", JStr(<<"Acme">>))>>)),
      Body(JStr(<<"U", "F", "F", "K">>), JObj(<<Item("name", JNum(42))>>)),
      Body(JStr(<<"U", "F">>), JObj(<<>>)),
      Body(JStr(<<"!">>), JObj(<<>>)),
      Body(JStr(<<"U", "F", "F", "K">>), JObj(<<Item("self", JStr(<<"Acme">>))>>)),
      Parsed(JNum(42)),
      Parsed(JObj(<<>>)) }

(***************************************************************************)
(* State.                                                                  *)
(***************************************************************************)
VARIABLES
    request,    \* request[h]: the request handler invocation h serves
    pc,         \* pc[h]: the statement h executes next
    locals,     \* the local variables of document_merge, per invocation
    sent,       \* sent[h]: the responses h has returned
    calls,      \* calls[h]: the merge-capability operations h has invoked
    log         \* app.logger: the error lines written so far

vars == <<request, pc, locals, sent, calls, log>>

NoException == [type |-> "", msg |-> <<>>]

NoLocals ==
    [request_data |-> Unset, template_base64 |-> Unset, data |-> Unset,
     template_bytes |-> <<>>, document |-> <<>>, available_fields |-> {},
     output_bytes |-> <<>>, exc |-> NoException]

\* The statements of the try block in program order (lines 43-103).
ValuesCheckedAfterCreate ==
    << "get_json", "validate_required", "validate_dict", "decode", "create",
       "validate_values", "get_merge_fields", "merge", "write", "respond", "done" >>

DecodeBeforeValues ==
    << "get_json", "validate_required", "validate_dict", "decode",
       "validate_values", "create", "get_merge_fields", "merge", "write",
       "respond", "done" >>

FieldsAfterMerge ==
    << "get_json", "validate_required", "validate_dict", "validate_values",
       "decode", "create", "merge", "get_merge_fields", "write", "respond",
       "done" >>

HandlerSteps ==
    << "get_json", "validate_required", "validate_dict", "validate_values",
       "decode", "create", "get_merge_fields", "merge", "write", "respond",
       "done" >>

StepAfter(step) ==
    HandlerSteps[(CHOOSE i \in 1..Len(HandlerSteps) : HandlerSteps[i] = step) + 1]

\* The variables of document_merge are locals of the function: every
\* invocation has its own.
SharedSlot(h) == 1

Slot(h) == h

Local(h) == locals[Slot(h)]

Assign(h, upd) == locals' = [locals EXCEPT ![Slot(h)] = upd]

\* `return jsonify(...), status`: the invocation ends with this response.
Return(h, response) ==
    /\ sent' = [sent EXCEPT ![h] = Append(@, response)]
    /\ pc' = [pc EXCEPT ![h] = "done"]

\* An exception raised inside the try block: control goes to line 105.
Raise(h, type, msg) ==
    /\ Assign(h, [Local(h) EXCEPT !.exc = [type |-> type, msg |-> msg]])
    /\ pc' = [pc EXCEPT ![h] = "except"]

Goto(h, step) == pc' = [pc EXCEPT ![h] = StepAfter(step)]

Init ==
    /\ \E r \in Requests :
          request = [h \in Handlers |-> IF h = 1 THEN r ELSE NoRequest]
    /\ pc = [h \in Handlers |-> IF h = 1 THEN HandlerSteps[1] ELSE "idle"]
    /\ locals = [h \in Handlers |-> NoLocals]
    /\ sent = [h \in Handlers |-> <<>>]
    /\ calls = [h \in Handlers |-> <<>>]
    /\ log = <<>>

ConcInit ==
    /\ request \in [Handlers -> ConcurrentRequests]
    /\ pc = [h \in Handlers |-> HandlerSteps[1]]
    /\ locals = [h \in Handlers |-> NoLocals]
    /\ sent = [h \in Handlers |-> <<>>]
    /\ calls = [h \in Handlers |-> <<>>]
    /\ log = <<>>

(***************************************************************************)
(* The statements of document_merge.                                       *)
(***************************************************************************)
\* request_data = request.get_json() (line 43): a body that does not parse
\* makes get_json raise BadRequest, inside the try block.
GetJson(h) ==
    /\ pc[h] = "get_json"
    /\ IF request[h].parse = "ok"
       THEN /\ Assign(h, [Local(h) EXCEPT !.request_data = request[h].json])
            /\ Goto(h, "get_json")
       ELSE Raise(h, "BadRequest", <<"400 Bad Request: Failed to decode JSON object">>)
    /\ UNCHANGED <<request, sent, calls, log>>

\* Lines 46-53: the test of line 46 evaluates left to right and stops at the
\* first true operand; `in` raises TypeError on a number or a boolean, and
\* the subscripts of lines 52-53 raise TypeError on a list or a str.
ValidateRequired(h) ==
    /\ pc[h] = "validate_required"
    /\ LET rd == Local(h).request_data IN
       IF Falsy(rd)
       THEN Return(h, ErrorResponse(400, MissingParameters)) /\ UNCHANGED locals
       ELSE IF ~SupportsIn(rd)
       THEN Raise(h, "TypeError", <<"argument of type '", rd.kind, "' is not iterable">>)
            /\ UNCHANGED sent
       ELSE IF ~Contains(rd, "template") \/ ~Contains(rd, "data")
       THEN Return(h, ErrorResponse(400, MissingParameters)) /\ UNCHANGED locals
       ELSE IF ~SupportsKeyIndex(rd)
       THEN Raise(h, "TypeError", <<rd.kind, " indices must be integers">>)
            /\ UNCHANGED sent
       ELSE /\ Assign(h, [Local(h) EXCEPT !.template_base64 = Get(rd, "template"),
                                          !.data = Get(rd, "data")])
            /\ Goto(h, "validate_required")
            /\ UNCHANGED sent
    /\ UNCHANGED <<request, calls, log>>

\* Lines 56-60.
ValidateDict(h) ==
    /\ pc[h] = "validate_dict"
    /\ IF ~IsDict(Local(h).data)
       THEN Return(h, ErrorResponse(400, DataNotObject))
       ELSE Goto(h, "validate_dict") /\ UNCHANGED sent
    /\ UNCHANGED <<request, locals, calls, log>>

\* Lines 63-68: the loop returns at the first value that is not a str.
ValidateValues(h) ==
    /\ pc[h] = "validate_values"
    /\ LET items == Local(h).data.val
           i == FirstNonString(items) IN
       IF i # 0
       THEN Return(h, ErrorResponse(400, ValueNotString(items[i].k)))
       ELSE Goto(h, "validate_values") /\ UNCHANGED sent
    /\ UNCHANGED <<request, locals, calls, log>>

\* Lines 71-77.
DecodeTemplate(h) ==
    /\ pc[h] = "decode"
    /\ LET r == B64Decode(Local(h).template_base64) IN
       IF r.ok
       THEN /\ Assign(h, [Local(h) EXCEPT !.template_bytes = r.bytes])
            /\ Goto(h, "decode")
            /\ UNCHANGED sent
       ELSE IF DecodeCatches(r)
       THEN Return(h, ErrorResponse(400, InvalidBase64)) /\ UNCHANGED locals
       ELSE Raise(h, r.type, r.msg) /\ UNCHANGED sent
    /\ UNCHANGED <<request, calls, log>>

\* Lines 80-81.
CreateDocument(h) ==
    /\ pc[h] = "create"
    /\ calls' = [calls EXCEPT ![h] = Append(@, "MailMerge")]
    /\ LET r == NewMailMerge(Local(h).template_bytes) IN
       IF r.ok
       THEN /\ Assign(h, [Local(h) EXCEPT !.document = r.doc])
            /\ Goto(h, "create")
       ELSE Raise(h, r.type, r.msg)
    /\ UNCHANGED <<request, sent, log>>

\* Line 84.
GetMergeFields(h) ==
    /\ pc[h] = "get_merge_fields"
    /\ calls' = [calls EXCEPT ![h] = Append(@, "get_merge_fields")]
    /\ Assign(h, [Local(h) EXCEPT
                    !.available_fields = MergeFieldsOf(Local(h).document)])
    /\ Goto(h, "get_merge_fields")
    /\ UNCHANGED <<request, sent, log>>

\* Line 87.
Merge(h) ==
    /\ pc[h] = "merge"
    /\ calls' = [calls EXCEPT ![h] = Append(@, "merge")]
    /\ LET r == MergeInto(Local(h).document, Local(h).data) IN
       IF r.ok
       THEN /\ Assign(h, [Local(h) EXCEPT !.document = r.doc])
            /\ Goto(h, "merge")
       ELSE Raise(h, r.type, r.msg)
    /\ UNCHANGED <<request, sent, log>>

\* Lines 90-95.
Write(h) ==
    /\ pc[h] = "write"
    /\ calls' = [calls EXCEPT ![h] = Append(@, "write")]
    /\ LET r == WriteOut(Local(h).document) IN
       IF r.ok
       THEN /\ Assign(h, [Local(h) EXCEPT !.output_bytes = r.bytes])
            /\ Goto(h, "write")
       ELSE Raise(h, r.type, r.msg)
    /\ UNCHANGED <<request, sent, log>>

\* Lines 96-103.
Respond(h) ==
    /\ pc[h] = "respond"
    /\ Return(h, SuccessResponse(B64Encode(Local(h).output_bytes),
                                 Local(h).available_fields))
    /\ UNCHANGED <<request, locals, calls, log>>

\* Lines 105-110.
ExceptHandler(h) ==
    /\ pc[h] = "except"
    /\ LET e == Local(h).exc IN
       IF OuterCatches(e)
       THEN /\ log' = Append(log, <<"Error processing document: ">> \o e.msg)
            /\ Return(h, ExceptResponse(e))
       ELSE /\ Return(h, FlaskInternalServerError)
            /\ UNCHANGED log
    /\ UNCHANGED <<request, locals, calls>>

Next ==
    \E h \in Handlers :
        \/ GetJson(h)
        \/ ValidateRequired(h)
        \/ ValidateDict(h)
        \/ ValidateValues(h)
        \/ DecodeTemplate(h)
        \/ CreateDocument(h)
        \/ GetMergeFields(h)
        \/ Merge(h)
        \/ Write(h)
        \/ Respond(h)
        \/ ExceptHandler(h)

\* One request, drawn from the whole input space.
Spec == Init /\ [][Next]_vars

\* NumHandlers requests in flight, their statements interleaved.
ConcSpec == ConcInit /\ [][Next]_vars

(***************************************************************************)
(* Vocabulary of the properties.                                           *)
(***************************************************************************)
Done(h) == pc[h] = "done"
Response(h) == sent[h][1]
Answered(h) == Done(h) /\ Len(sent[h]) = 1

\* The parsed body is a mapping holding both required keys.
HasBothKeys(req) ==
    /\ req.parse = "ok"
    /\ req.json.kind = "obj"
    /\ {"template", "data"} \subseteq Keys(req.json)

TemplateOf(req) == Get(req.json, "template")
DataOf(req) == Get(req.json, "data")

NonStringEntries(d) == {i \in 1..Len(d.val) : ~IsStr(d.val[i].v)}

\* The shape checks pass: both keys, data a mapping, every value a string.
ShapeOk(req) ==
    /\ HasBothKeys(req)
    /\ IsDict(DataOf(req))
    /\ NonStringEntries(DataOf(req)) = {}

\* base64 as RFC 4648 defines it: only alphabet characters, whole quads,
\* padding only as the last one or two characters.
ValidBase64(v) ==
    /\ IsStr(v)
    /\ Len(v.val) % 4 = 0
    /\ \A i \in 1..Len(v.val) :
          \/ InB64Table(v.val[i])
          \/ v.val[i] = "=" /\ i >= Len(v.val) - 1
                            /\ \A j \in i..Len(v.val) : v.val[j] = "="

DataCharsBefore(s, i) == Cardinality({j \in 1..(i - 1) : InB64Table(s[j])})
PadsSinceLastDataChar(s, i) ==
    Cardinality({j \in 1..(i - 1) :
                    s[j] = "=" /\ \A k \in j..(i - 1) : ~InB64Table(s[k])})

\* What b64decode rejects, stated without running it: a value that is not a
\* string, a string holding a non-ASCII character, or a string whose data
\* characters (those of the alphabet; all others are ignored) neither reach
\* a completing pad (the 3rd data character of a quad followed by '=', or
\* the 2nd followed by two '=') nor end on a whole quad.
DecoderRejects(v) ==
    \/ ~IsStr(v)
    \/ \E i \in 1..Len(v.val) : v.val[i] \in NonAscii
    \/ /\ DataCharsBefore(v.val, Len(v.val) + 1) % 4 # 0
       /\ ~\E i \in 1..Len(v.val) :
             /\ v.val[i] = "="
             /\ \/ DataCharsBefore(v.val, i) % 4 = 3
                \/ /\ DataCharsBefore(v.val, i) % 4 = 2
                   /\ PadsSinceLastDataChar(v.val, i) >= 1

\* The document the template holds, when it holds one.
PackageOf(v) == NewMailMerge(B64Decode(v).bytes)

\* The template is base64 text of a package that can be read and written.
IsDocumentTemplate(v) ==
    /\ ValidBase64(v)
    /\ PackageOf(v).ok
    /\ \A i \in 1..Len(PackageOf(v).doc) : PackageOf(v).doc[i].tag # "damaged"

IsClientError(r) == r.status = 400 /\ r.body.success = FALSE

(***************************************************************************)
(* C1.  Every request whose parsed body is not a mapping holding both      *)
(* `template` and `data` is answered 400 with success false.               *)
(* The code raises TypeError on a number, on true, and on a list or a      *)
(* string that holds both words, and answers 500.                          *)
(***************************************************************************)
C1_MissingKeysIs400 ==
    \A h \in Handlers :
        (Answered(h) /\ request[h].parse = "ok" /\ ~HasBothKeys(request[h]))
            => IsClientError(Response(h))

(***************************************************************************)
(* C2.  A body with `template` and a mapping `data` holding a value that   *)
(* is not a string is answered 400, success false, with a message naming   *)
(* a key of `data` whose value is not a string.                            *)
(***************************************************************************)
C2_NonStringValueIs400 ==
    \A h \in Handlers :
        (/\ Answered(h)
         /\ HasBothKeys(request[h])
         /\ IsDict(DataOf(request[h]))
         /\ NonStringEntries(DataOf(request[h])) # {})
            => /\ IsClientError(Response(h))
               /\ \E i \in NonStringEntries(DataOf(request[h])) :
                     Response(h).body.error
                         = ValueNotString(DataOf(request[h]).val[i].k)

\* A string value comes first and the offending one second.
C2_Witness ==
    \E h \in Handlers :
        /\ Answered(h)
        /\ HasBothKeys(request[h])
        /\ IsDict(DataOf(request[h]))
        /\ NonStringEntries(DataOf(request[h])) = {2}
        /\ Response(h).body.error = ValueNotString(DataOf(request[h]).val[2].k)

(***************************************************************************)
(* C3, as claimed.  A request that passes the shape checks and whose       *)
(* template is not valid base64 is answered 400 'Invalid base64 encoded    *)
(* template'.                                                              *)
(***************************************************************************)
C3_InvalidBase64Is400 ==
    \A h \in Handlers :
        (Answered(h) /\ ShapeOk(request[h]) /\ ~ValidBase64(TemplateOf(request[h])))
            => Response(h) = ErrorResponse(400, InvalidBase64)

(***************************************************************************)
(* C3, amended.  A request that passes the shape checks and whose template *)
(* the decoder rejects (a non-string, a string with a non-ASCII character, *)
(* or data characters that do not come in whole or padded quads once the   *)
(* characters outside the alphabet are dropped) is answered 400 'Invalid   *)
(* base64 encoded template', never 200 or 500.                             *)
(***************************************************************************)
C3_RejectedTemplateIs400 ==
    \A h \in Handlers :
        (Answered(h) /\ ShapeOk(request[h]) /\ DecoderRejects(TemplateOf(request[h])))
            => Response(h) = ErrorResponse(400, InvalidBase64)

\* A string template with a character outside the alphabet, rejected.
C3_Witness ==
    \E h \in Handlers :
        /\ Answered(h)
        /\ ShapeOk(request[h])
        /\ IsStr(TemplateOf(request[h]))
        /\ \E i \in 1..Len(TemplateOf(request[h]).val) :
              TemplateOf(request[h]).val[i] = "!"
        /\ DecoderRejects(TemplateOf(request[h]))
        /\ Response(h) = ErrorResponse(400, InvalidBase64)

(***************************************************************************)
(* C4.  Every request that satisfies the schema (template the base64 text  *)
(* of a document, data a mapping of strings under any string keys) is      *)
(* answered 200, success true, with a document that base64-decodes to a    *)
(* non-empty payload.                                                      *)
(* The code spreads the keys of data as keyword arguments: the key "self"  *)
(* makes the call of merge raise, and the answer is 500.                   *)
(***************************************************************************)
C4_ValidRequestIs200 ==
    \A h \in Handlers :
        (Answered(h) /\ ShapeOk(request[h])
                     /\ IsDocumentTemplate(TemplateOf(request[h])))
            => /\ Response(h).status = 200
               /\ Response(h).body.success = TRUE
               /\ B64Decode(JStr(Response(h).body.document)).ok
               /\ Len(B64Decode(JStr(Response(h).body.document)).bytes) > 0

(***************************************************************************)
(* C5.  In a successful response `fields` is the set of merge fields of    *)
(* the template as supplied, before substitution, whatever keys data has.  *)
(***************************************************************************)
C5_FieldsOfTemplate ==
    \A h \in Handlers :
        (Answered(h) /\ Response(h).status = 200)
            => Response(h).body.fields
                   = MergeFieldsOf(PackageOf(TemplateOf(request[h])).doc)

\* The merge replaced one field of the template, left another in place and
\* was given a key the template does not hold.
C5_Witness ==
    \E h \in Handlers :
        /\ Answered(h)
        /\ Response(h).status = 200
        /\ Response(h).body.fields = {"name"}
        /\ Keys(DataOf(request[h])) = {"name", "date"}
        /\ MergeFieldsOf(Local(h).document) = {}

C7_No400AfterMergeCall ==
    \A h \in Handlers :
        \A i \in 1..Len(sent[h]) : sent[h][i].status = 400 => calls[h] = <<>>

\* The last check of all, the decoding, is the one that failed.
C7_Witness ==
    \E h \in Handlers :
        /\ Answered(h)
        /\ Response(h) = ErrorResponse(400, InvalidBase64)
        /\ calls[h] = <<>>

(***************************************************************************)
(* C8.  Every response is 200 with success true, document and fields and   *)
(* no error, or 400 or 500 with success false, error and nothing else.     *)
(***************************************************************************)
C8_ResponseShapes ==
    \A h \in Handlers :
        \A i \in 1..Len(sent[h]) :
            LET r == sent[h][i] IN
            /\ r.status \in {200, 400, 500}
            /\ "success" \in DOMAIN r.body
            /\ r.status = 200 <=> r.body.success = TRUE
            /\ r.body.success = TRUE
                  => DOMAIN r.body = {"success", "document", "fields"}
            /\ r.body.success = FALSE => DOMAIN r.body = {"success", "error"}

\* A response written by the except clause.
C8_Witness ==
    \E h \in Handlers :
        /\ Answered(h)
        /\ Local(h).exc # NoException
        /\ Response(h).status = 500
        /\ DOMAIN Response(h).body = {"success", "error"}

(***************************************************************************)
(* C9.  Requests in flight together, in any interleaving, each get the     *)
(* response the same request gets when it is handled alone.                *)
(***************************************************************************)
\* The response of document_merge to one request handled from start to end
\* with nothing else running.
AloneMerged(t, d) ==
    LET package == NewMailMerge(B64Decode(t).bytes)
        merged == MergeInto(package.doc, d)
        written == WriteOut(merged.doc)
    IN  IF ~package.ok THEN ErrorResponse(500, package.msg)
        ELSE IF ~merged.ok THEN ErrorResponse(500, merged.msg)
        ELSE IF ~written.ok THEN ErrorResponse(500, written.msg)
        ELSE SuccessResponse(B64Encode(written.bytes), MergeFieldsOf(package.doc))

AloneValidated(t, d) ==
    IF ~IsDict(d) THEN ErrorResponse(400, DataNotObject)
    ELSE IF NonStringEntries(d) # {}
    THEN ErrorResponse(400,
            ValueNotString(d.val[CHOOSE i \in NonStringEntries(d) :
                                    \A j \in NonStringEntries(d) : i <= j].k))
    ELSE IF ~B64Decode(t).ok THEN ErrorResponse(400, InvalidBase64)
    ELSE AloneMerged(t, d)

Alone(req) ==
    IF req.parse # "ok"
    THEN ErrorResponse(500, <<"400 Bad Request: Failed to decode JSON object">>)
    ELSE IF Falsy(req.json) THEN ErrorResponse(400, MissingParameters)
    ELSE IF req.json.kind \in {"num", "bool"}
    THEN ErrorResponse(500, <<"argument of type '", req.json.kind, "' is not iterable">>)
    ELSE IF ~Contains(req.json, "template") \/ ~Contains(req.json, "data")
    THEN ErrorResponse(400, MissingParameters)
    ELSE IF req.json.kind # "obj"
    THEN ErrorResponse(500, <<req.json.kind, " indices must be integers">>)
    ELSE AloneValidated(TemplateOf(req), DataOf(req))

C9_SameResponseAsAlone ==
    \A h \in Handlers :
        /\ ~Done(h) => sent[h] = <<>>
        /\ Done(h) => sent[h] = <<Alone(request[h])>>

\* One request was answered 200 while another, for a different template
\* and different data, had built its document and not merged it yet.
C9_Witness ==
    \E g, h \in Handlers :
        /\ g # h
        /\ Answered(g)
        /\ Response(g).status = 200
        /\ pc[h] = "merge"
        /\ TemplateOf(request[h]) # TemplateOf(request[g])
        /\ DataOf(request[h]) # DataOf(request[g])
        /\ Local(h).document # Local(g).document

(***************************************************************************)
(* C10.  The checks run in a fixed order (required keys, data a mapping,   *)
(* every value a string in iteration order, base64 decoding) and only the  *)
(* first failing one is reported: a non-string value wins over a template  *)
(* the decoder rejects, and of several non-string values the first key in  *)
(* iteration order is named.                                               *)
(***************************************************************************)
C10_FirstFailingCheck ==
    \A h \in Handlers :
        (Answered(h) /\ request[h].parse = "ok" /\ request[h].json.kind = "obj")
            => LET req == request[h] IN
               IF ~HasBothKeys(req)
               THEN Response(h) = ErrorResponse(400, MissingParameters)
               ELSE IF ~IsDict(DataOf(req))
               THEN Response(h) = ErrorResponse(400, DataNotObject)
               ELSE IF NonStringEntries(DataOf(req)) # {}
               THEN \E i \in NonStringEntries(DataOf(req)) :
                       /\ \A j \in NonStringEntries(DataOf(req)) : i <= j
                       /\ Response(h)
                            = ErrorResponse(400, ValueNotString(DataOf(req).val[i].k))
               ELSE DecoderRejects(TemplateOf(req))
                       => Response(h) = ErrorResponse(400, InvalidBase64)

\* Two values are not strings, the template is rejected by the decoder, and
\* the response names the first of the two keys.
C10_Witness ==
    \E h \in Handlers :
        /\ Answered(h)
        /\ HasBothKeys(request[h])
        /\ IsDict(DataOf(request[h]))
        /\ NonStringEntries(DataOf(request[h])) = {1, 2}
        /\ DecoderRejects(TemplateOf(request[h]))
        /\ Response(h)
             = ErrorResponse(400, ValueNotString(DataOf(request[h]).val[1].k))

====
